---- MODULE Spec2Model ----
(***************************************************************************)
(* Model of meta-media-search: the vector index                            *)
(* (src/src/rust-wasm/src/vector_search.rs), the quantized vector store    *)
(* and cosine_similarity_js (src/src/rust-wasm/src/wasm_bindings.rs), the  *)
(* embedding statistics (src/src/rust-wasm/src/embeddings.rs), the result  *)
(* cache and the search engine (src/src/mobile-wasm/mobile-core.rs) and    *)
(* the offline storage (src/src/mobile-wasm/offline-storage.rs).  Each     *)
(* component has a specification of its own, in which the other            *)
(* components stay idle.                                                   *)
(*                                                                         *)
(* Numbers.  An f32 is modelled as a record [nan, v]: either NaN, or the   *)
(* fixed-point number v / Scale.  Arithmetic rounds to the nearest         *)
(* representable value and propagates NaN as IEEE-754 does; the infinities *)
(* the embedding statistics start from are numbers beyond every input.  A  *)
(* usize is an integer modulo 2^UsizeBits.                                 *)
(***************************************************************************)
EXTENDS Integers, Sequences, FiniteSets

\* ------------------------------------------------------------------ bounds
\* Most vectors the index holds in the model.
MaxVectors == 3
\* Largest k a search is called with.
MaxK == 3
\* Fixed-point resolution of the modelled f32: v stands for v / Scale.
Scale == 10
\* Width of the modelled usize (32 on wasm32).
UsizeBits == 3
\* Largest max_size a cache is constructed with.
MaxCacheSize == 2
\* Largest value the modelled clock returns.
MaxTime == 2
\* Most components of a vector handed to a stateless function.
MaxLen == 3

Modulus == 2 ^ UsizeBits

\* Index dimensions the model constructs.
Dimensions == {1, 2}

\* ------------------------------------------------------------------ f32
NaN == [nan |-> TRUE, v |-> 0]

F(n) == [nan |-> FALSE, v |-> n]

\* The f32 components callers pass: 0.0, 1.0 and NaN.
Components == {F(0), F(Scale), NaN}

Min(a, b) == IF a <= b THEN a ELSE b

AbsInt(n) == IF n < 0 THEN -n ELSE n

\* a / b rounded to the nearest integer, b > 0.
RoundDiv(a, b) ==
    IF a >= 0 THEN (2 * a + b) \div (2 * b)
    ELSE -((2 * (-a) + b) \div (2 * b))

RECURSIVE ISqrtFrom(_, _)
ISqrtFrom(n, r) == IF (r + 1) * (r + 1) <= n THEN ISqrtFrom(n, r + 1) ELSE r

\* Floor of the square root of n >= 0.
ISqrt(n) == ISqrtFrom(n, 0)

FAdd(x, y) == IF x.nan \/ y.nan THEN NaN ELSE F(x.v + y.v)

FSub(x, y) == IF x.nan \/ y.nan THEN NaN ELSE F(x.v - y.v)

FMul(x, y) == IF x.nan \/ y.nan THEN NaN ELSE F(RoundDiv(x.v * y.v, Scale))

\* x / y; the callers divide only by a norm > 0.0.
FDiv(x, y) ==
    IF x.nan \/ y.nan \/ y.v <= 0 THEN NaN ELSE F(RoundDiv(x.v * Scale, y.v))

FAbs(x) == IF x.nan THEN NaN ELSE F(AbsInt(x.v))

\* sqrt of a negative number is NaN.
FSqrt(x) == IF x.nan \/ x.v < 0 THEN NaN ELSE F(ISqrt(x.v * Scale))

\* x > y on f32: false when either side is NaN.
FGt(x, y) == ~x.nan /\ ~y.nan /\ x.v > y.v

\* f32::partial_cmp: None when either side is NaN.
partial_cmp(x, y) ==
    IF x.nan \/ y.nan THEN "None"
    ELSE IF x.v < y.v THEN "Less"
    ELSE IF x.v > y.v THEN "Greater"
    ELSE "Equal"

\* Option<Ordering>::unwrap_or(Ordering::Equal)
unwrap_or_Equal(o) == IF o = "None" THEN "Equal" ELSE o

\* ------------------------------------------------------------ metrics
\* a.iter().zip(b.iter()): the pairs up to the shorter length.
ZipLen(a, b) == Min(Len(a), Len(b))

RECURSIVE SumTo(_, _)
\* Iterator::sum over f32, left to right from 0.0.
SumTo(s, n) == IF n = 0 THEN F(0) ELSE FAdd(SumTo(s, n - 1), s[n])

Sum(s) == SumTo(s, Len(s))

dot_product(a, b) == Sum([i \in 1..ZipLen(a, b) |-> FMul(a[i], b[i])])

cosine_similarity(a, b) == dot_product(a, b)

euclidean_distance(a, b) ==
    FSqrt(Sum([i \in 1..ZipLen(a, b) |->
        LET diff == FSub(a[i], b[i]) IN FMul(diff, diff)]))

manhattan_distance(a, b) ==
    Sum([i \in 1..ZipLen(a, b) |-> FAbs(FSub(a[i], b[i]))])

normalize_vector(vec) ==
    LET norm == FSqrt(Sum([i \in 1..Len(vec) |-> FMul(vec[i], vec[i])]))
    IN IF FGt(norm, F(0))
       THEN [i \in 1..Len(vec) |-> FDiv(vec[i], norm)]
       ELSE vec

Metrics == {"Cosine", "Euclidean", "Manhattan", "DotProduct"}

compute_similarity(m, a, b) ==
    CASE m = "Cosine" -> cosine_similarity(a, b)
      [] m = "Euclidean" -> euclidean_distance(a, b)
      [] m = "Manhattan" -> manhattan_distance(a, b)
      [] m = "DotProduct" -> dot_product(a, b)

\* ------------------------------------------------------------ search
\* The comparator handed to sort_by (lines 144-150).
compare(a, b, reverse) ==
    IF reverse
    THEN unwrap_or_Equal(partial_cmp(b.score, a.score))
    ELSE unwrap_or_Equal(partial_cmp(a.score, b.score))

RECURSIVE InsertPos(_, _, _, _)
\* Where the tail element x of a sorted prefix s comes to rest: it is shifted
\* left past every element it is strictly less than.
InsertPos(s, x, j, reverse) ==
    IF j >= 1 /\ compare(x, s[j], reverse) = "Less"
    THEN InsertPos(s, x, j - 1, reverse)
    ELSE j

InsertTail(s, x, reverse) ==
    LET j == InsertPos(s, x, Len(s), reverse)
    IN SubSeq(s, 1, j) \o <<x>> \o SubSeq(s, j + 1, Len(s))

RECURSIVE SortPrefix(_, _, _)
SortPrefix(v, n, reverse) ==
    IF n = 0 THEN <<>>
    ELSE InsertTail(SortPrefix(v, n - 1, reverse), v[n], reverse)

RECURSIVE InsertPosPastEqual(_, _, _, _)
InsertPosPastEqual(s, x, j, reverse) ==
    IF j >= 1 /\ compare(x, s[j], reverse) # "Greater"
    THEN InsertPosPastEqual(s, x, j - 1, reverse)
    ELSE j

RECURSIVE SortPrefixPastEqual(_, _, _)
SortPrefixPastEqual(v, n, reverse) ==
    IF n = 0 THEN <<>>
    ELSE LET s == SortPrefixPastEqual(v, n - 1, reverse)
             j == InsertPosPastEqual(s, v[n], Len(s), reverse)
         IN SubSeq(s, 1, j) \o <<v[n]>> \o SubSeq(s, j + 1, Len(s))

\* Mutant of sort_by: a sort that is not stable, an element moves left past
\* the elements it compares equal to.
sort_by_not_stable(v, reverse) == SortPrefixPastEqual(v, Len(v), reverse)

\* slice::sort_by, the standard library's stable sort.  A slice of at most 20
\* elements, as every slice of the model is, is sorted by insertion from the
\* left (insertion_sort_shift_left), whatever the comparator answers.
sort_by(v, reverse) == SortPrefix(v, Len(v), reverse)

\* Vec::truncate(len): no effect when len exceeds the length.
truncate(s, len) == IF len >= Len(s) THEN s ELSE SubSeq(s, 1, len)

\* Mutant of top_k: the truncation is missing.
top_k_untruncated(results, k) == results

\* Return top k results (lines 152-153).
top_k(results, k) == truncate(results, Min(k, Len(results)))

\* The (id, score) pairs of lines 133-140, in storage order.
score_all(vecs, m, query_vec) ==
    [i \in 1..Len(vecs) |->
        [id |-> i - 1, score |-> compute_similarity(m, query_vec, vecs[i])]]

is_reverse(m) == m \in {"Cosine", "DotProduct"}

\* Mutant of search_of: the empty index is answered before the query's length
\* is checked.
search_of_empty_first(vecs, dim, m, query, k) ==
    IF vecs = <<>> THEN [status |-> "ok", ret |-> <<>>]
    ELSE IF Len(query) # dim THEN [status |-> "err", ret |-> <<>>]
    ELSE LET query_vec == IF m = "Cosine" THEN normalize_vector(query) ELSE query
             results == score_all(vecs, m, query_vec)
         IN [status |-> "ok", ret |-> top_k(sort_by(results, is_reverse(m)), k)]

\* Mutant of search_of: a Cosine index scores the query as given.
search_of_scores_raw_query(vecs, dim, m, query, k) ==
    IF Len(query) # dim THEN [status |-> "err", ret |-> <<>>]
    ELSE IF vecs = <<>> THEN [status |-> "ok", ret |-> <<>>]
    ELSE LET results == score_all(vecs, m, query)
         IN [status |-> "ok", ret |-> top_k(sort_by(results, is_reverse(m)), k)]

\* VectorIndex::search as a function of the index and its arguments.
search_of(vecs, dim, m, query, k) ==
    IF Len(query) # dim THEN [status |-> "err", ret |-> <<>>]
    ELSE IF vecs = <<>> THEN [status |-> "ok", ret |-> <<>>]
    ELSE LET query_vec == IF m = "Cosine" THEN normalize_vector(query) ELSE query
             results == score_all(vecs, m, query_vec)
         IN [status |-> "ok", ret |-> top_k(sort_by(results, is_reverse(m)), k)]

\* ------------------------------------------------------ insertion
\* Mutant of add_vector_of: only a vector that is too long is rejected.
add_vector_of_accepts_short(vecs, dim, m, vector) ==
    IF Len(vector) > dim
    THEN [status |-> "err", vecs |-> vecs, ret |-> <<>>]
    ELSE LET vec == IF m = "Cosine" THEN normalize_vector(vector) ELSE vector
             pushed == Append(vecs, vec)
         IN [status |-> "ok", vecs |-> pushed, ret |-> <<Len(pushed) - 1>>]

\* Mutant of add_vector_of: the length after the push is returned.
add_vector_of_returns_len(vecs, dim, m, vector) ==
    IF Len(vector) # dim
    THEN [status |-> "err", vecs |-> vecs, ret |-> <<>>]
    ELSE LET vec == IF m = "Cosine" THEN normalize_vector(vector) ELSE vector
             pushed == Append(vecs, vec)
         IN [status |-> "ok", vecs |-> pushed, ret |-> <<Len(pushed)>>]

\* Mutant of add_vector_of: the identifier is taken from the length before
\* the push (saturating at 0).
add_vector_of_id_before_push(vecs, dim, m, vector) ==
    IF Len(vector) # dim
    THEN [status |-> "err", vecs |-> vecs, ret |-> <<>>]
    ELSE LET vec == IF m = "Cosine" THEN normalize_vector(vector) ELSE vector
             pushed == Append(vecs, vec)
         IN [status |-> "ok", vecs |-> pushed,
             ret |-> <<IF Len(vecs) = 0 THEN 0 ELSE Len(vecs) - 1>>]

\* Mutant of add_vector_of: the vector is stored as given under every metric.
add_vector_of_stores_raw(vecs, dim, m, vector) ==
    IF Len(vector) # dim
    THEN [status |-> "err", vecs |-> vecs, ret |-> <<>>]
    ELSE LET pushed == Append(vecs, vector)
         IN [status |-> "ok", vecs |-> pushed, ret |-> <<Len(pushed) - 1>>]

\* Mutant of add_vector_of: a vector that is too long is cut to the dimension.
add_vector_of_truncates(vecs, dim, m, vector) ==
    IF Len(vector) < dim
    THEN [status |-> "err", vecs |-> vecs, ret |-> <<>>]
    ELSE LET cut == SubSeq(vector, 1, dim)
             vec == IF m = "Cosine" THEN normalize_vector(cut) ELSE cut
             pushed == Append(vecs, vec)
         IN [status |-> "ok", vecs |-> pushed, ret |-> <<Len(pushed) - 1>>]

\* VectorIndex::add_vector as a function of the index and its argument.
add_vector_of(vecs, dim, m, vector) ==
    IF Len(vector) # dim
    THEN [status |-> "err", vecs |-> vecs, ret |-> <<>>]
    ELSE LET vec == IF m = "Cosine" THEN normalize_vector(vector) ELSE vector
             pushed == Append(vecs, vec)
         IN [status |-> "ok", vecs |-> pushed, ret |-> <<Len(pushed) - 1>>]

\* usize multiplication and addition as the release build computes them.
wrapping_mul(a, b) == (a * b) % Modulus

wrapping_add(a, b) == (a + b) % Modulus

\* Mutant of slice_start: the index is not scaled by the dimension.
slice_start_unscaled(i, dim) == i

\* let start = i * self.dimension (line 105).
slice_start(i, dim) == wrapping_mul(i, dim)

RECURSIVE batch_loop(_, _, _, _, _, _, _)
\* The loop of add_vectors_batch (lines 104-109) from iteration i on, ids
\* being what add_vector has returned so far: a slice that reaches past the
\* end of the buffer panics, leaving what the earlier iterations pushed.
batch_loop(vecs, ids, dim, m, flat, i, count) ==
    IF i = count THEN [status |-> "ok", vecs |-> vecs, ids |-> ids]
    ELSE LET start == slice_start(i, dim)
             end == wrapping_add(start, dim)
         IN IF start > end \/ end > Len(flat)
            THEN [status |-> "panic", vecs |-> vecs, ids |-> ids]
            ELSE LET r == add_vector_of(vecs, dim, m, SubSeq(flat, start + 1, end))
                 IN IF r.status # "ok"
                    THEN [status |-> "err", vecs |-> r.vecs, ids |-> ids]
                    ELSE batch_loop(r.vecs, ids \o r.ret, dim, m, flat, i + 1, count)

\* The length check of add_vectors_batch (line 96), in wrapping arithmetic.
batch_length_ok(flat, count, dim) == Len(flat) = wrapping_mul(count, dim)

\* VectorIndex::add_vectors_batch where count * dimension is computed
\* without an overflow check (the release profile).
add_vectors_batch_of(vecs, dim, m, flat, count) ==
    IF ~batch_length_ok(flat, count, dim)
    THEN [status |-> "err", vecs |-> vecs, ids |-> <<>>]
    ELSE batch_loop(vecs, <<>>, dim, m, flat, 0, count)

\* Mutant of get_vector_of: the last identifier is out of range as well.
get_vector_of_off_by_one(vecs, id) ==
    IF id + 1 < Len(vecs) THEN <<vecs[id + 1]>> ELSE <<>>

\* VectorIndex::get_vector: Some(vector) as <<vector>>, None as <<>>.
get_vector_of(vecs, id) == IF id < Len(vecs) THEN <<vecs[id + 1]>> ELSE <<>>

\* Mutant of clear_of: the last vector is popped instead of all.
clear_of_pops(vecs) == SubSeq(vecs, 1, Len(vecs) - 1)

\* VectorIndex::clear
clear_of(vecs) == <<>>

\* ------------------------------------------------------------ inputs
\* Vectors of dimension 1 and 2: a zero vector, vectors that tie, and NaN.
Vectors1 == {<<F(0)>>, <<F(Scale)>>, <<NaN>>}

Vectors2 == {<<F(Scale), F(0)>>, <<F(Scale), F(Scale)>>, <<NaN, F(Scale)>>}

\* Vectors and queries handed to an index of dimension dim: those of its
\* dimension, one that is shorter and one that is longer.
InputVectors(dim) ==
    (IF dim = 1 THEN Vectors1 ELSE Vectors2)
        \cup {<<>>, <<F(Scale), F(0), F(Scale)>>}

\* Flat batch buffers of 0 to 4 floats.
FlatBuffers ==
    {<<>>,
     <<F(Scale)>>,
     <<F(Scale), F(0)>>,
     <<F(Scale), F(Scale), F(0)>>,
     <<F(Scale), F(0), F(Scale), F(Scale)>>}

\* Batch counts: the small ones, and one whose product with a dimension of 2
\* exceeds the usize range.
BatchCounts == {0, 1, 2, Modulus \div 2 + 1}

\* ------------------------------------------------------------- state
VARIABLES
    vectors,      \* VectorIndex.vectors
    dimension,    \* VectorIndex.dimension
    metric,       \* VectorIndex.metric
    normalized,   \* VectorIndex.normalized
    last,         \* the last call: its name, its arguments in brief, its outcome
    tracking,     \* whether this behaviour records the history below
    assigned,     \* history: identifiers add_vector has returned so far
    live,         \* history: identifiers add_vector has returned since the last clear
    invalidated   \* history: identifiers that had been returned when a clear ran

\* CompressedVectorStore (src/src/rust-wasm/src/wasm_bindings.rs)
VARIABLES
    store_vectors,        \* CompressedVectorStore.vectors, the byte buffer
    store_dimension,      \* CompressedVectorStore.dimension
    store_count,          \* CompressedVectorStore.count
    compression_factor,   \* CompressedVectorStore.compression_factor
    store_last,           \* the last call on the store and its outcome
    added                 \* history: the vectors the successful adds were given

\* SearchCache (src/src/mobile-wasm/mobile-core.rs)
VARIABLES
    max_size,     \* SearchCache.max_size
    cache,        \* SearchCache.cache: entries (query, results, timestamp)
    cache_last    \* the last call on the cache and its outcome

\* The functions that keep no state: cosine_similarity_js
\* (src/src/rust-wasm/src/wasm_bindings.rs) and EmbeddingStats::from_batch
\* (src/src/rust-wasm/src/embeddings.rs)
VARIABLES
    called        \* the last call of a function: its arguments and its outcome

\* SearchEngine (src/src/mobile-wasm/mobile-core.rs); its cache is the
\* SearchCache above
VARIABLES
    engine_last   \* the last call on the engine and its outcome

\* OfflineStorage (src/src/mobile-wasm/offline-storage.rs)
VARIABLES
    db,           \* the IndexedDB database: object store -> key -> entry
    now,          \* what Date::now() answers
    tasks         \* the calls in flight: each task's call, position and locals

history == <<assigned, live, invalidated>>

indexVars == <<vectors, dimension, metric, normalized, last, tracking, assigned, live, invalidated>>

storeVars == <<store_vectors, store_dimension, store_count, compression_factor, store_last, added>>

cacheVars == <<max_size, cache, cache_last>>

offlineVars == <<db, now, tasks>>

vars == <<indexVars, storeVars, cacheVars, called, engine_last, offlineVars>>

\* A component no call is made on: it stays as it is constructed here.
IndexIdle ==
    /\ vectors = <<>>
    /\ dimension = 1
    /\ metric = "Cosine"
    /\ normalized = FALSE
    /\ last = [op |-> "none"]
    /\ tracking = FALSE
    /\ assigned = {}
    /\ live = {}
    /\ invalidated = {}

StoreIdle ==
    /\ store_vectors = <<>>
    /\ store_dimension = 1
    /\ store_count = 0
    /\ compression_factor = 1
    /\ store_last = [op |-> "none"]
    /\ added = <<>>

CacheIdle ==
    /\ max_size = 0
    /\ cache = <<>>
    /\ cache_last = [op |-> "none"]

\* No function has been called.
NothingCalled == called = [op |-> "none"]

EngineIdle == engine_last = [op |-> "none"]

OfflineIdle ==
    /\ db = <<>>
    /\ now = 0
    /\ tasks = <<>>

\* Nothing but the component a specification is about is in use.
OthersIdle == NothingCalled /\ EngineIdle /\ OfflineIdle

\* A call record: mismatch tells whether the argument's length disagreed with
\* the index (for a batch: with count * dimension, as integers); n is k, count
\* or id, kept for the calls that returned normally; query is the query of a
\* search that returned normally.
Call(op, status, mismatch, n, ret) ==
    [op |-> op, status |-> status, mismatch |-> mismatch,
     n |-> IF status = "ok" THEN n ELSE 0, ret |-> ret, query |-> <<>>]

\* VectorIndex::new
new ==
    /\ vectors = <<>>
    /\ dimension \in Dimensions
    /\ metric \in Metrics
    /\ normalized = FALSE
    /\ last = Call("new", "ok", FALSE, 0, <<>>)
    /\ assigned = {}
    /\ live = {}
    /\ invalidated = {}

Init == new /\ tracking = FALSE /\ StoreIdle /\ CacheIdle /\ OthersIdle

\* The metric has no part in the identifiers: the behaviours that record them
\* are those of one index that normalizes and one that does not.
InitHistory ==
    /\ new
    /\ tracking = TRUE
    /\ metric \in {"Cosine", "Euclidean"}
    /\ StoreIdle
    /\ CacheIdle
    /\ OthersIdle

\* The history after add_vector calls that returned the identifiers ids.
RecordAssigned(ids) ==
    IF tracking
    THEN /\ assigned' = assigned \cup {ids[i] : i \in 1..Len(ids)}
         /\ live' = live \cup {ids[i] : i \in 1..Len(ids)}
         /\ UNCHANGED invalidated
    ELSE UNCHANGED history

\* The history after a clear.
RecordCleared ==
    IF tracking
    THEN /\ live' = {}
         /\ invalidated' = assigned
         /\ UNCHANGED assigned
    ELSE UNCHANGED history

add_vector(vector) ==
    LET r == add_vector_of(vectors, dimension, metric, vector)
    IN /\ Len(r.vecs) <= MaxVectors
       /\ vectors' = r.vecs
       /\ last' = Call("add_vector", r.status, Len(vector) # dimension, 0, r.ret)
       /\ RecordAssigned(r.ret)
       /\ UNCHANGED <<dimension, metric, normalized, tracking>>

\* The build with overflow checks (the debug profile) panics on the product
\* of line 96 before anything is pushed; the build without them wraps.
add_vectors_batch(flat, count) ==
    \/ /\ count * dimension >= Modulus
       /\ last' = Call("add_vectors_batch", "panic",
                       Len(flat) # count * dimension, count, <<>>)
       /\ UNCHANGED <<vectors, dimension, metric, normalized, tracking, history>>
    \/ LET r == add_vectors_batch_of(vectors, dimension, metric, flat, count)
       IN /\ Len(r.vecs) <= MaxVectors
          /\ vectors' = r.vecs
          /\ last' = Call("add_vectors_batch", r.status,
                          Len(flat) # count * dimension, count, <<>>)
          /\ RecordAssigned(r.ids)
          /\ UNCHANGED <<dimension, metric, normalized, tracking>>

search(query, k) ==
    LET r == search_of(vectors, dimension, metric, query, k)
    IN /\ last' = [Call("search", r.status, Len(query) # dimension, k, r.ret)
                       EXCEPT !.query = IF r.status = "ok" THEN query ELSE <<>>]
       /\ UNCHANGED <<vectors, dimension, metric, normalized, tracking, history>>

clear ==
    /\ vectors' = clear_of(vectors)
    /\ last' = Call("clear", "ok", FALSE, 0, <<>>)
    /\ RecordCleared
    /\ UNCHANGED <<dimension, metric, normalized, tracking>>

get_vector(id) ==
    /\ last' = Call("get_vector", "ok", FALSE, id, get_vector_of(vectors, id))
    /\ UNCHANGED <<vectors, dimension, metric, normalized, tracking, history>>

\* A step of the index leaves the other components alone.
IndexOnly == UNCHANGED <<storeVars, cacheVars, called, engine_last, offlineVars>>

Next ==
    \/ \E vector \in InputVectors(dimension) : add_vector(vector) /\ IndexOnly
    \/ \E flat \in FlatBuffers, n \in BatchCounts :
           add_vectors_batch(flat, n) /\ IndexOnly
    \/ \E query \in InputVectors(dimension), k \in 0..MaxK :
           search(query, k) /\ IndexOnly
    \/ clear /\ IndexOnly
    \/ \E id \in 0..MaxVectors : get_vector(id) /\ IndexOnly

\* The index and its calls.
Spec == Init /\ [][Next]_vars

\* The same, with the history of assigned identifiers recorded.
SpecHistory == InitHistory /\ [][Next]_vars

\* ------------------------------------------- CompressedVectorStore
\* compression_factor.max(1).min(8)
clamp_factor(f) == Min(IF f >= 1 THEN f ELSE 1, 8)

\* f32::clamp(-1.0, 1.0): NaN stays NaN.
clamp(x) ==
    IF x.nan THEN x
    ELSE IF x.v < -Scale THEN F(-Scale)
    ELSE IF x.v > Scale THEN F(Scale)
    ELSE x

\* ((val.clamp(-1.0, 1.0) + 1.0) * 127.5) as u8: the product lies in 0..255;
\* the cast drops the fraction and turns NaN into 0.
quantize(val) ==
    LET c == clamp(val)
    IN IF c.nan THEN 0 ELSE ((c.v + Scale) * 255) \div (2 * Scale)

\* (b as f32 / 127.5) - 1.0, which is (2b - 255) / 255.  The vectors get
\* returns are kept in units of 1 / 255, in which every byte's value is exact.
dequantize(b) == 2 * b - 255

\* Mutant of add_of: a rejected vector is counted.
add_of_counts_rejected(buf, cnt, dim, vector) ==
    IF Len(vector) # dim
    THEN [status |-> "err", vectors |-> buf, count |-> cnt + 1]
    ELSE [status |-> "ok",
          vectors |-> buf \o [i \in 1..Len(vector) |-> quantize(vector[i])],
          count |-> cnt + 1]

\* CompressedVectorStore::add as a function of the store and its argument.
add_of(buf, cnt, dim, vector) ==
    IF Len(vector) # dim
    THEN [status |-> "err", vectors |-> buf, count |-> cnt]
    ELSE [status |-> "ok",
          vectors |-> buf \o [i \in 1..Len(vector) |-> quantize(vector[i])],
          count |-> cnt + 1]

\* Mutant of get_of: the identifier is not scaled by the dimension.
get_of_start_unscaled(buf, cnt, dim, id) ==
    IF id >= cnt THEN [status |-> "err", ret |-> <<>>]
    ELSE LET start == id
             end == start + dim
         IN IF end > Len(buf) THEN [status |-> "panic", ret |-> <<>>]
            ELSE [status |-> "ok",
                  ret |-> [j \in 1..(end - start) |-> dequantize(buf[start + j])]]

\* CompressedVectorStore::get as a function of the store and its argument.
\* id < count keeps id * dimension below the buffer's length, so the product
\* does not overflow; a slice past the end of the buffer would panic.
get_of(buf, cnt, dim, id) ==
    IF id >= cnt THEN [status |-> "err", ret |-> <<>>]
    ELSE LET start == id * dim
             end == start + dim
         IN IF end > Len(buf) THEN [status |-> "panic", ret |-> <<>>]
            ELSE [status |-> "ok",
                  ret |-> [j \in 1..(end - start) |-> dequantize(buf[start + j])]]

\* CompressedVectorStore::memory_usage
memory_usage == Len(store_vectors)

\* Components handed to the store: -1.0, 0.0, 0.7, 1.0, one above the range
\* and NaN.
StoreVectors1 ==
    {<<F(-Scale)>>, <<F(0)>>, <<F(Scale - 3)>>, <<F(Scale)>>, <<F(2 * Scale)>>, <<NaN>>}

StoreVectors2 ==
    {<<F(-Scale), F(Scale)>>, <<F(Scale - 3), F(0)>>,
     <<F(3 - Scale), F(2 * Scale)>>, <<NaN, F(1)>>}

\* Vectors handed to a store of dimension dim: those of its dimension, one
\* that is shorter and one that is longer.
StoreInputs(dim) ==
    (IF dim = 1 THEN StoreVectors1 ELSE StoreVectors2)
        \cup {<<>>, <<F(Scale), F(0), F(Scale)>>}

\* A call on the store: id is the argument of get, ret what get returned.
StoreCall(op, status, mismatch, id, ret) ==
    [op |-> op, status |-> status, mismatch |-> mismatch, id |-> id, ret |-> ret]

\* CompressedVectorStore::new
store_new ==
    /\ store_vectors = <<>>
    /\ store_dimension \in Dimensions
    /\ store_count = 0
    /\ compression_factor \in {clamp_factor(f) : f \in {0, 9}}
    /\ store_last = StoreCall("new", "ok", FALSE, 0, <<>>)
    /\ added = <<>>

store_add(vector) ==
    LET r == add_of(store_vectors, store_count, store_dimension, vector)
    IN /\ r.count <= MaxVectors
       /\ store_vectors' = r.vectors
       /\ store_count' = r.count
       /\ store_last' = StoreCall("add", r.status, Len(vector) # store_dimension, 0, <<>>)
       /\ added' = IF r.status = "ok" THEN Append(added, vector) ELSE added
       /\ UNCHANGED <<store_dimension, compression_factor>>

store_get(id) ==
    LET r == get_of(store_vectors, store_count, store_dimension, id)
    IN /\ store_last' = StoreCall("get", r.status, FALSE, id, r.ret)
       /\ UNCHANGED <<store_vectors, store_dimension, store_count, compression_factor, added>>

InitStore == store_new /\ IndexIdle /\ CacheIdle /\ OthersIdle

\* A step of the store leaves the other components alone.
StoreOnly == UNCHANGED <<indexVars, cacheVars, called, engine_last, offlineVars>>

NextStore ==
    \/ \E vector \in StoreInputs(store_dimension) : store_add(vector) /\ StoreOnly
    \/ \E id \in 0..MaxVectors : store_get(id) /\ StoreOnly

\* The quantized store and its calls.
SpecStore == InitStore /\ [][NextStore]_vars

\* ----------------------------------------------------- SearchCache
\* Queries and serialized results handed to the cache.
Queries == {"a", "b", "c"}

Results == {"r1", "r2"}

\* Capacities the model constructs a cache with.
MaxSizes == 0..MaxCacheSize

\* What Date::now() answers: the wall clock in milliseconds.  Two calls in the
\* same millisecond get the same value, and the clock can be set back between
\* two calls, so a call may get any value.
Timestamps == 0..MaxTime

Entry(query, results, timestamp) ==
    [query |-> query, results |-> results, timestamp |-> timestamp]

\* SearchCache::get: Some(results) as <<results>>, None as <<>>; the first
\* entry whose query matches.
cache_get_of(entries, query) ==
    LET matching == SelectSeq(entries, LAMBDA e : e.query = query)
    IN IF matching = <<>> THEN <<>> ELSE <<matching[1].results>>

\* self.cache.retain(|(q, _, _)| q != &query)
retain(entries, query) == SelectSeq(entries, LAMBDA e : e.query # query)

RECURSIVE InsertByTimestamp(_, _, _)
\* The tail element x of a sorted prefix s, shifted left past every entry
\* whose timestamp is strictly greater.
InsertByTimestamp(s, x, j) ==
    IF j >= 1 /\ x.timestamp < s[j].timestamp
    THEN InsertByTimestamp(s, x, j - 1)
    ELSE SubSeq(s, 1, j) \o <<x>> \o SubSeq(s, j + 1, Len(s))

RECURSIVE SortByTimestamp(_, _)
SortByTimestamp(v, n) ==
    IF n = 0 THEN <<>>
    ELSE LET s == SortByTimestamp(v, n - 1) IN InsertByTimestamp(s, v[n], Len(s))

\* self.cache.sort_by(|a, b| a.2.partial_cmp(&b.2).unwrap()): the stable sort
\* on timestamps; Date::now() is never NaN, so the unwrap does not panic.
sort_by_timestamp(entries) == SortByTimestamp(entries, Len(entries))

\* Mutant of remove_first: the last entry is removed.
remove_last(entries) == SubSeq(entries, 1, Len(entries) - 1)

\* self.cache.remove(0)
remove_first(entries) == Tail(entries)

\* Mutant of over_capacity: one entry too many is allowed.
over_capacity_by_two(entries, max) == Len(entries) > max + 1

\* self.cache.len() > self.max_size
over_capacity(entries, max) == Len(entries) > max

\* Mutant of cache_set_of: an entry with the same query is not removed.
cache_set_of_keeps_prior(entries, max, query, results, timestamp) ==
    LET pushed == Append(entries, Entry(query, results, timestamp))
    IN IF over_capacity(pushed, max)
       THEN remove_first(sort_by_timestamp(pushed))
       ELSE pushed

\* Mutant of cache_set_of: the capacity is checked against the length the
\* cache would have had with the prior entry of the query still in it.
cache_set_of_counts_prior(entries, max, query, results, timestamp) ==
    LET pushed == Append(retain(entries, query), Entry(query, results, timestamp))
    IN IF Len(entries) + 1 > max
       THEN remove_first(sort_by_timestamp(pushed))
       ELSE pushed

\* SearchCache::set as a function of the entries, the arguments and the
\* timestamp Date::now() returned.
cache_set_of(entries, max, query, results, timestamp) ==
    LET pushed == Append(retain(entries, query), Entry(query, results, timestamp))
    IN IF over_capacity(pushed, max)
       THEN remove_first(sort_by_timestamp(pushed))
       ELSE pushed

\* A call on the cache.  For set, timestamp is what Date::now() returned and
\* ret holds the entries the call dropped after the push; for get, ret is
\* what it returned.
CacheCall(op, query, results, timestamp, ret) ==
    [op |-> op, query |-> query, results |-> results,
     timestamp |-> timestamp, ret |-> ret]

\* The elements of a sequence.
Range(s) == {s[i] : i \in 1..Len(s)}

\* SearchCache::new
cache_new ==
    /\ max_size \in MaxSizes
    /\ cache = <<>>
    /\ cache_last = CacheCall("new", "", "", 0, <<>>)

\* Mutant of cache_get: a read stamps the entry it finds with the latest
\* timestamp of the cache plus one, as a least-recently-used cache would.
cache_get_touches(query) ==
    /\ cache_last' = CacheCall("get", query, "", 0, cache_get_of(cache, query))
    /\ cache' = [i \in 1..Len(cache) |->
                    IF cache[i].query = query
                    THEN Entry(query, cache[i].results, MaxTime + 1)
                    ELSE cache[i]]
    /\ UNCHANGED max_size

cache_get(query) ==
    /\ cache_last' = CacheCall("get", query, "", 0, cache_get_of(cache, query))
    /\ UNCHANGED <<max_size, cache>>

cache_set(query, results, timestamp) ==
    LET pushed == Append(retain(cache, query), Entry(query, results, timestamp))
        entries == cache_set_of(cache, max_size, query, results, timestamp)
        dropped == SelectSeq(pushed, LAMBDA e : e \notin Range(entries))
    IN /\ cache' = entries
       /\ cache_last' = CacheCall("set", query, results, timestamp, dropped)
       /\ UNCHANGED max_size

cache_clear ==
    /\ cache' = <<>>
    /\ cache_last' = CacheCall("clear", "", "", 0, <<>>)
    /\ UNCHANGED max_size

InitCache == cache_new /\ IndexIdle /\ StoreIdle /\ OthersIdle

\* A step of the cache leaves the other components alone.
CacheOnly == UNCHANGED <<indexVars, storeVars, called, engine_last, offlineVars>>

NextCache ==
    \/ \E query \in Queries : cache_get(query) /\ CacheOnly
    \/ \E query \in Queries, results \in Results, timestamp \in Timestamps :
           cache_set(query, results, timestamp) /\ CacheOnly
    \/ cache_clear /\ CacheOnly

\* The result cache and its calls.
SpecCache == InitCache /\ [][NextCache]_vars

\* ------------------------------------------------ stateless functions
\* cosine_similarity_js: Ok(x) as status "ok" and ret <<x>>.
cosine_similarity_js_of(a, b) ==
    IF Len(a) # Len(b)
    THEN [status |-> "err", ret |-> <<>>]
    ELSE [status |-> "ok", ret |-> <<cosine_similarity(a, b)>>]

\* f32::INFINITY.  from_batch compares it and does no arithmetic on it, so it
\* is kept as a number above every component and every sum of the model.
INFINITY == F(Scale * Scale * Scale)

NEG_INFINITY == F(-(Scale * Scale * Scale))

\* f32::min and f32::max: when one side is NaN the other side is returned.
f32_min(x, y) ==
    IF x.nan THEN y ELSE IF y.nan THEN x ELSE IF y.v < x.v THEN y ELSE x

f32_max(x, y) ==
    IF x.nan THEN y ELSE IF y.nan THEN x ELSE IF y.v > x.v THEN y ELSE x

RECURSIVE MinTo(_, _)
\* min[j] = min[j].min(val) over the first n values, from f32::INFINITY.
MinTo(s, n) == IF n = 0 THEN INFINITY ELSE f32_min(MinTo(s, n - 1), s[n])

RECURSIVE MaxTo(_, _)
MaxTo(s, n) == IF n = 0 THEN NEG_INFINITY ELSE f32_max(MaxTo(s, n - 1), s[n])

\* The j-th components of the count vectors of a flat batch, j from 1.
Column(embeddings, dim, count, j) ==
    [i \in 1..count |-> embeddings[(i - 1) * dim + j]]

\* count as f32
as_f32(n) == F(n * Scale)

\* x / y on f32 where y is a count: 0.0 / 0.0 is NaN.
FDivCount(x, y) == IF y.v = 0 THEN NaN ELSE FDiv(x, y)

\* Mutant of mean_of: the sum is divided by the dimension.
mean_of_divides_by_dimension(embeddings, dim, count, j) ==
    FDivCount(Sum(Column(embeddings, dim, count, j)), as_f32(dim))

\* mean[j]: the sum of the column, then divided by count as f32.
mean_of(embeddings, dim, count, j) ==
    FDivCount(Sum(Column(embeddings, dim, count, j)), as_f32(count))

\* std_dev[j]: the square root of the mean squared difference from mean[j].
std_dev_of(embeddings, dim, count, j) ==
    LET col == Column(embeddings, dim, count, j)
        mean == mean_of(embeddings, dim, count, j)
        squares == [i \in 1..count |->
                       LET diff == FSub(col[i], mean) IN FMul(diff, diff)]
    IN FSqrt(FDivCount(Sum(squares), as_f32(count)))

\* EmbeddingStats::from_batch.  embeddings.len() / dimension panics when
\* dimension is 0 (integer division by zero), in every build profile.
from_batch_of(embeddings, dim) ==
    IF dim = 0
    THEN [status |-> "panic", mean |-> <<>>, std_dev |-> <<>>, min |-> <<>>, max |-> <<>>]
    ELSE LET count == Len(embeddings) \div dim
         IN IF Len(embeddings) # count * dim
            THEN [status |-> "err", mean |-> <<>>, std_dev |-> <<>>,
                  min |-> <<>>, max |-> <<>>]
            ELSE [status |-> "ok",
                  mean |-> [j \in 1..dim |->
                               mean_of(embeddings, dim, count, j)],
                  std_dev |-> [j \in 1..dim |->
                                  std_dev_of(embeddings, dim, count, j)],
                  min |-> [j \in 1..dim |->
                              MinTo(Column(embeddings, dim, count, j), count)],
                  max |-> [j \in 1..dim |->
                              MaxTo(Column(embeddings, dim, count, j), count)]]

\* Components handed to the functions: -1.0, 0.0, 1.0, 2.0 and NaN.
FnComponents == {F(-Scale), F(0), F(Scale), F(2 * Scale), NaN}

\* Flat batches of up to MaxLen components.
FnVectors == UNION {[1..n -> FnComponents] : n \in 0..MaxLen}

\* Vectors of up to two components handed to cosine_similarity_js.
CosineVectors == UNION {[1..n -> FnComponents] : n \in 0..2}

\* Dimensions from_batch is called with.
FnDimensions == 0..MaxLen

\* Each behaviour makes one call: the functions keep no state, so a call
\* owes nothing to the calls before it.
cosine_similarity_js(a, b) ==
    LET r == cosine_similarity_js_of(a, b)
    IN /\ NothingCalled
       /\ called' = [op |-> "cosine_similarity_js", a |-> a, b |-> b,
                     status |-> r.status, ret |-> r.ret]

from_batch(embeddings, dim) ==
    /\ NothingCalled
    /\ called' = [op |-> "from_batch", embeddings |-> embeddings,
                  dimension |-> dim, stats |-> from_batch_of(embeddings, dim)]

InitFunctions == OthersIdle /\ IndexIdle /\ StoreIdle /\ CacheIdle

\* A call of a function leaves the components alone.
FunctionsOnly == UNCHANGED <<indexVars, storeVars, cacheVars, engine_last, offlineVars>>

NextFunctions ==
    \/ \E a \in CosineVectors, b \in CosineVectors :
           cosine_similarity_js(a, b) /\ FunctionsOnly
    \/ \E embeddings \in FnVectors, dim \in FnDimensions :
           from_batch(embeddings, dim) /\ FunctionsOnly

\* The stateless functions and their calls.
SpecFunctions == InitFunctions /\ [][NextFunctions]_vars

\* ----------------------------------------------------- search engine
\* A string is the sequence of its characters.
to_lowercase_char(c) == IF c = "A" THEN "a" ELSE IF c = "B" THEN "b" ELSE c

\* str::to_lowercase
to_lowercase(s) == [i \in 1..Len(s) |-> to_lowercase_char(s[i])]

\* str::contains: the empty pattern occurs in every string.
contains(text, pat) ==
    \E i \in 1..(Len(text) - Len(pat) + 1) :
        SubSeq(text, i, i + Len(pat) - 1) = pat

RECURSIVE SplitFrom(_, _, _)
SplitFrom(s, i, word) ==
    IF i > Len(s)
    THEN IF word = <<>> THEN <<>> ELSE <<word>>
    ELSE IF s[i] = " "
         THEN (IF word = <<>> THEN <<>> ELSE <<word>>) \o SplitFrom(s, i + 1, <<>>)
         ELSE SplitFrom(s, i + 1, Append(word, s[i]))

\* str::split_whitespace: the non-empty words between the blanks.
split_whitespace(s) == SplitFrom(s, 1, <<>>)

\* SearchEngine::compute_similarity: 1.0 when the text contains the query,
\* else the share of the query's words that occur in a word of the text;
\* 0.0 / 0.0 is NaN when the query has no word.
engine_compute_similarity(query, text) ==
    LET query_lower == to_lowercase(query)
        text_lower == to_lowercase(text)
        query_words == split_whitespace(query_lower)
        text_words == split_whitespace(text_lower)
        matches == Cardinality({i \in 1..Len(query_words) :
                       \E j \in 1..Len(text_words) :
                           contains(text_words[j], query_words[i])})
    IN IF contains(text_lower, query_lower) THEN F(Scale)
       ELSE IF Len(query_words) = 0 THEN NaN
       ELSE F(RoundDiv(matches * Scale, Len(query_words)))

\* A MediaItem, by the fields the ranking reads and the id that tells one
\* item from another.
MediaItem(id, title, score) == [id |-> id, title |-> title, score |-> score]

\* An object of a JSON text: title is <<>> when the text has no "title"
\* member; unknown tells whether it has a member MediaItem does not declare.
JsonObject(id, title, score, unknown) ==
    [id |-> id, title |-> title, score |-> score, unknown |-> unknown]

\* A JSON text: an array of objects, or a text that is not JSON.
JsonText(wellformed, objects) == [wellformed |-> wellformed, objects |-> objects]

\* serde_json::from_str::<Vec<MediaItem>>: an error for a text that is not
\* JSON and for an object without a declared member; members that are not
\* declared are dropped.
from_str(text) ==
    IF ~text.wellformed \/ \E i \in 1..Len(text.objects) : text.objects[i].title = <<>>
    THEN [status |-> "err", items |-> <<>>]
    ELSE [status |-> "ok",
          items |-> [i \in 1..Len(text.objects) |->
                        MediaItem(text.objects[i].id, text.objects[i].title[1],
                                  text.objects[i].score)]]

\* serde_json::to_string(&results): the declared members of every item.
to_string(items) ==
    JsonText(TRUE, [i \in 1..Len(items) |->
                       JsonObject(items[i].id, <<items[i].title>>, items[i].score, FALSE)])

\* Lines 190-208: score and filter, sort by score descending, take the top
\* 50.  A NaN score does not pass the filter, so the unwrap of the comparison
\* does not panic.
rank(query, items) ==
    LET scored == [i \in 1..Len(items) |->
                      [score |-> FMul(engine_compute_similarity(query, items[i].title),
                                      items[i].score),
                       item |-> items[i]]]
        kept == SelectSeq(scored, LAMBDA e : FGt(e.score, F(Scale \div 10)))
        sorted == truncate(sort_by(kept, TRUE), 50)
    IN [i \in 1..Len(sorted) |-> sorted[i].item]

\* The queries and the JSON texts the model calls search with.
EngineQueries == {<<"a">>, <<"b">>, <<"a", " ", "b">>}

EngineObjects ==
    [upper |-> JsonObject("1", << <<"A", " ", "b">> >>, F(Scale), FALSE),
     high |-> JsonObject("2", << <<"b">> >>, F(2 * Scale), FALSE),
     low |-> JsonObject("3", << <<"c", " ", "a">> >>, F(Scale \div 10), TRUE),
     untitled |-> JsonObject("4", <<>>, F(Scale), FALSE)]

EngineTexts ==
    {JsonText(FALSE, <<>>),
     JsonText(TRUE, <<>>),
     JsonText(TRUE, <<EngineObjects.upper, EngineObjects.high>>),
     JsonText(TRUE, <<EngineObjects.low, EngineObjects.upper>>),
     JsonText(TRUE, <<EngineObjects.untitled>>)}

\* A call on the engine: ret is <<string>> for Ok(string), <<>> otherwise.
EngineCall(op, query, items_json, status, ret) ==
    [op |-> op, query |-> query, items_json |-> items_json,
     status |-> status, ret |-> ret]

\* SearchEngine::new; cache_last stays the record of the cache's construction,
\* the calls the engine makes on its cache are told by engine_last.
engine_new ==
    /\ cache_new
    /\ engine_last = EngineCall("new", <<>>, <<>>, "ok", <<>>)

\* SearchEngine::search; timestamp is what Date::now() answers in the set.
engine_search(query, items_json, timestamp) ==
    LET cached == cache_get_of(cache, query)
        parsed == from_str(items_json)
        results_json == to_string(rank(query, parsed.items))
    IN IF cached # <<>>
       THEN /\ UNCHANGED <<max_size, cache, cache_last>>
            /\ engine_last' = EngineCall("search", query, items_json, "ok", cached)
       ELSE IF parsed.status = "err"
       THEN /\ UNCHANGED <<max_size, cache, cache_last>>
            /\ engine_last' = EngineCall("search", query, items_json, "err", <<>>)
       ELSE /\ cache' = cache_set_of(cache, max_size, query, results_json, timestamp)
            /\ UNCHANGED <<max_size, cache_last>>
            /\ engine_last' = EngineCall("search", query, items_json, "ok",
                                         <<results_json>>)

\* SearchEngine::clear_cache
clear_cache ==
    /\ cache' = <<>>
    /\ UNCHANGED <<max_size, cache_last>>
    /\ engine_last' = EngineCall("clear_cache", <<>>, <<>>, "ok", <<>>)

InitEngine == engine_new /\ IndexIdle /\ StoreIdle /\ NothingCalled /\ OfflineIdle

\* A step of the engine leaves the other components alone.
EngineOnly == UNCHANGED <<indexVars, storeVars, called, offlineVars>>

NextEngine ==
    \/ \E query \in EngineQueries, items_json \in EngineTexts,
          timestamp \in Timestamps :
           engine_search(query, items_json, timestamp) /\ EngineOnly
    \/ clear_cache /\ EngineOnly

\* The search engine, its cache and its calls.
SpecEngine == InitEngine /\ [][NextEngine]_vars

\* ------------------------------------------------- offline storage
STORE_MEDIA == "media"

STORE_SEARCHES == "searches"

\* The object stores of the database the model keeps; no modelled call reads
\* or writes the preferences store.
Stores == {STORE_MEDIA, STORE_SEARCHES}

StorageKeys == {"a"}

\* The clock counts half hours and stops at MaxClock.
MaxClock == 3

\* Some(3600000.0): one hour.
SEARCH_TTL == 2

\* ttl_ms: None, or Some(half an hour).
Ttls == {<<>>, <<1>>}

\* The calls that can be in flight at once.
Tasks == {1, 2}

StorageEntry(key, value, timestamp, ttl) ==
    [key |-> key, value |-> value, timestamp |-> timestamp, ttl |-> ttl]

\* Ok(x) and Err(_) of a finished call.
Ok(x) == [status |-> "ok", value |-> x]

Err == [status |-> "err", value |-> <<>>]

\* A task: the call it runs, the await it is suspended at ("done" when it runs
\* none), the store and key it works on, the entry it holds (to put, or as
\* read), and what the call returned.  expect is history: what the searches
\* store held under the query when a get_search was issued.
Task(op, pc, store, key, entry, ret, expect) ==
    [op |-> op, pc |-> pc, store |-> store, key |-> key, entry |-> entry,
     ret |-> ret, expect |-> expect]

Finished(t, ret) == Task(t.op, "done", t.store, t.key, <<>>, <<ret>>, t.expect)

\* Date::now() - timestamp > ttl_ms
expired(entry, time) == entry.ttl # <<>> /\ time - entry.timestamp > entry.ttl[1]

\* OfflineStorage::new, with the database opened by init and no call in
\* flight.
offline_new ==
    /\ db = [store \in Stores |-> [key \in StorageKeys |-> <<>>]]
    /\ now = 0
    /\ tasks = [p \in Tasks |-> Task("none", "done", "", "", <<>>, <<>>, <<>>)]

\* store_media up to the await of put_item: the entry is built and stamped.
store_media(p, key, value, ttl_ms) ==
    /\ tasks[p].pc = "done"
    /\ tasks' = [tasks EXCEPT ![p] =
                    Task("store_media", "put_item", STORE_MEDIA, key,
                         <<StorageEntry(key, value, now, ttl_ms)>>, <<>>, <<>>)]
    /\ UNCHANGED <<db, now>>

\* store_search up to the await of put_item.
store_search(p, query, results) ==
    /\ tasks[p].pc = "done"
    /\ tasks' = [tasks EXCEPT ![p] =
                    Task("store_search", "put_item", STORE_SEARCHES, query,
                         <<StorageEntry(query, results, now, <<SEARCH_TTL>>)>>,
                         <<>>, <<>>)]
    /\ UNCHANGED <<db, now>>

\* put_item: the put request of the task's transaction is carried out and
\* the call returns.
put_item(p) ==
    /\ tasks[p].pc = "put_item"
    /\ db' = [db EXCEPT ![tasks[p].store][tasks[p].key] = tasks[p].entry]
    /\ tasks' = [tasks EXCEPT ![p] = Finished(tasks[p], Ok(<<>>))]
    /\ UNCHANGED now

\* get_media up to the await of get_item.
get_media(p, key) ==
    /\ tasks[p].pc = "done"
    /\ tasks' = [tasks EXCEPT ![p] =
                    Task("get_media", "get_item", STORE_MEDIA, key, <<>>, <<>>, <<>>)]
    /\ UNCHANGED <<db, now>>

\* get_search: self.get_media(query), up to the await of get_item.
get_search(p, query) ==
    /\ tasks[p].pc = "done"
    /\ tasks' = [tasks EXCEPT ![p] =
                    Task("get_search", "get_item", STORE_MEDIA, query, <<>>, <<>>,
                         db[STORE_SEARCHES][query])]
    /\ UNCHANGED <<db, now>>

\* get_item resolves and get_media goes on to its next await: an entry whose
\* time has run out is to be deleted, any other result is returned (undefined,
\* as <<>>, when the store has no entry under the key).
get_item(p) ==
    LET t == tasks[p]
        entry == db[t.store][t.key]
    IN /\ t.pc = "get_item"
       /\ tasks' = [tasks EXCEPT ![p] =
                       IF entry # <<>> /\ expired(entry[1], now)
                       THEN Task(t.op, "delete_item", t.store, t.key, entry,
                                 <<>>, t.expect)
                       ELSE IF entry # <<>>
                       THEN Finished(t, Ok(<<entry[1].value>>))
                       ELSE Finished(t, Ok(<<>>))]
       /\ UNCHANGED <<db, now>>

\* delete_item: the delete request is carried out, and get_media returns
\* Err("Entry expired").
delete_item(p) ==
    LET t == tasks[p]
    IN /\ t.pc = "delete_item"
       /\ db' = [db EXCEPT ![t.store][t.key] = <<>>]
       /\ tasks' = [tasks EXCEPT ![p] = Finished(t, Err)]
       /\ UNCHANGED now

\* clear_all up to the await of its first clear_store.
clear_all(p) ==
    /\ tasks[p].pc = "done"
    /\ tasks' = [tasks EXCEPT ![p] =
                    Task("clear_all", "clear_media", "", "", <<>>, <<>>, <<>>)]
    /\ UNCHANGED <<db, now>>

\* clear_store: the clear request of one store is carried out; clear_all goes
\* on to the next store and returns after the third.
clear_store(p) ==
    LET t == tasks[p]
    IN /\ t.pc \in {"clear_media", "clear_searches", "clear_preferences"}
       /\ db' = IF t.pc = "clear_media"
                THEN [db EXCEPT ![STORE_MEDIA] = [key \in StorageKeys |-> <<>>]]
                ELSE IF t.pc = "clear_searches"
                THEN [db EXCEPT ![STORE_SEARCHES] = [key \in StorageKeys |-> <<>>]]
                ELSE db
       /\ tasks' = [tasks EXCEPT ![p] =
                       IF t.pc = "clear_media"
                       THEN Task(t.op, "clear_searches", "", "", <<>>, <<>>, <<>>)
                       ELSE IF t.pc = "clear_searches"
                       THEN Task(t.op, "clear_preferences", "", "", <<>>, <<>>, <<>>)
                       ELSE Finished(t, Ok(<<>>))]
       /\ UNCHANGED now

\* Time passes.  The clock only advances here; a clock that is set back adds
\* behaviours and takes none away.
tick ==
    /\ now < MaxClock
    /\ now' = now + 1
    /\ UNCHANGED <<db, tasks>>

InitOffline == offline_new /\ IndexIdle /\ StoreIdle /\ CacheIdle /\ NothingCalled /\ EngineIdle

\* A step of the storage leaves the other components alone.
OfflineOnly == UNCHANGED <<indexVars, storeVars, cacheVars, called, engine_last>>

NextOffline ==
    \/ \E p \in Tasks, key \in StorageKeys, value \in Results, ttl_ms \in Ttls :
           store_media(p, key, value, ttl_ms) /\ OfflineOnly
    \/ \E p \in Tasks, query \in StorageKeys, results \in Results :
           store_search(p, query, results) /\ OfflineOnly
    \/ \E p \in Tasks : put_item(p) /\ OfflineOnly
    \/ \E p \in Tasks, key \in StorageKeys : get_media(p, key) /\ OfflineOnly
    \/ \E p \in Tasks, query \in StorageKeys : get_search(p, query) /\ OfflineOnly
    \/ \E p \in Tasks : get_item(p) /\ OfflineOnly
    \/ \E p \in Tasks : delete_item(p) /\ OfflineOnly
    \/ \E p \in Tasks : clear_all(p) /\ OfflineOnly
    \/ \E p \in Tasks : clear_store(p) /\ OfflineOnly
    \/ tick /\ OfflineOnly

\* The offline storage and the calls in flight on it.
SpecOffline == InitOffline /\ [][NextOffline]_vars

\* ------------------------------------------------------------ claims
SearchOk == last.op = "search" /\ last.status = "ok"

\* size()
size == Len(vectors)

\* C1: a successful search returns its results ordered by score:
\* non-increasing under Cosine and DotProduct, non-decreasing under Euclidean
\* and Manhattan.  Stated over the results whose score is a number; a NaN
\* score is compared with nothing.
C1_ResultsOrderedByScore ==
    SearchOk =>
        \A i, j \in 1..Len(last.ret) :
            (i < j /\ ~last.ret[i].score.nan /\ ~last.ret[j].score.nan) =>
                IF is_reverse(metric)
                THEN last.ret[i].score.v >= last.ret[j].score.v
                ELSE last.ret[i].score.v <= last.ret[j].score.v

\* C2: a successful search returns exactly min(k, size()) results; none for
\* k = 0, and every stored identifier exactly once for k >= size().
C2_SearchReturnsMinKSize ==
    SearchOk =>
        /\ Len(last.ret) = Min(last.n, size)
        /\ (last.n = 0 => last.ret = <<>>)
        /\ (last.n >= size =>
               \A id \in 0..(size - 1) :
                   Cardinality({i \in 1..Len(last.ret) : last.ret[i].id = id}) = 1)

\* A search with k above the size of an index of two vectors, and one that
\* cut three results down to fewer.
C2_Witness ==
    /\ SearchOk
    /\ \/ (size = 2 /\ last.n > size /\ Len(last.ret) = 2)
       \/ (size = 3 /\ last.n = 2 /\ Len(last.ret) = 2)

C4_AddVectorMismatchRejected ==
    [][(last'.op = "add_vector" /\ last'.mismatch) =>
           (last'.status = "err" /\ vectors' = vectors)]_vars

\* A rejected add_vector on an index that holds vectors.
C4_Witness ==
    /\ last.op = "add_vector"
    /\ last.status = "err"
    /\ last.mismatch
    /\ size >= 1

\* C5: a successful add_vector returns the value size() had before the call
\* and increases size() by exactly one.
C5_AddVectorReturnsOldSize ==
    [][(last'.op = "add_vector" /\ last'.status = "ok") =>
           (last'.ret = <<Len(vectors)>> /\ Len(vectors') = Len(vectors) + 1)]_vars

\* The third successful add_vector on an index.
C5_Witness ==
    /\ last.op = "add_vector"
    /\ last.status = "ok"
    /\ last.ret = <<2>>
    /\ size = 3

\* The identifiers a step's add_vector calls returned.
Returned == live' \ live

\* C6, as claimed: over any sequence of add_vector, add_vectors_batch, search
\* and clear, no successful add_vector returns an identifier that an earlier
\* add_vector on the same index returned.
C6_IdsNeverReassigned ==
    [][(last'.op = "add_vector" /\ last'.status = "ok") =>
           last'.ret[1] \notin assigned]_vars

\* C6, amended: no successful add_vector returns an identifier that an
\* add_vector, called directly or by add_vectors_batch, has returned since the
\* most recent clear; the add_vector calls of one batch return as many
\* identifiers, all new since that clear, as the batch pushes vectors.
C6_IdsUniqueSinceClear ==
    [][/\ (last'.op = "add_vector" /\ last'.status = "ok") =>
              (last'.ret[1] \notin live /\ last'.ret[1] \in live')
       /\ last'.op = "add_vectors_batch" =>
              Cardinality(Returned) = Len(vectors') - Len(vectors)]_vars

\* An add_vector that returned 1 after a clear had invalidated identifiers.
C6_Witness ==
    /\ tracking
    /\ last.op = "add_vector"
    /\ last.status = "ok"
    /\ last.ret = <<1>>
    /\ live = {0, 1}
    /\ invalidated # {}

\* C7, as claimed: every identifier assigned before a clear is invalid for
\* get_vector in every state after the clear.
C7_ClearedIdsStayInvalid ==
    \A id \in invalidated : get_vector_of(vectors, id) = <<>>

\* C7, amended: right after clear(), size() is 0 and get_vector returns none
\* for every identifier; an identifier stays invalid until an add_vector
\* returns it again.
C7_ClearEmptiesIndex ==
    [][/\ last'.op = "clear" =>
              /\ Len(vectors') = 0
              /\ \A id \in 0..MaxVectors : get_vector_of(vectors', id) = <<>>
       /\ \A id \in 0..MaxVectors :
              (get_vector_of(vectors, id) = <<>> /\ get_vector_of(vectors', id) # <<>>)
                  => id \in Returned]_vars

\* A get_vector that returned none for an identifier assigned before a clear,
\* with nothing inserted since.
C7_Witness ==
    /\ tracking
    /\ last.op = "get_vector"
    /\ last.n \in invalidated
    /\ last.ret = <<>>
    /\ live = {}

\* C8: add_vectors_batch(flat, count) with len(flat) # count * dimension does
\* not succeed and leaves the index as it was.
C8_BatchMismatchRejected ==
    [][(last'.op = "add_vectors_batch" /\ last'.mismatch) =>
           (last'.status # "ok" /\ vectors' = vectors)]_vars

\* The count consecutive dimension-length slices of a flat buffer.
Slices(flat, count, dim) ==
    [i \in 1..count |-> SubSeq(flat, (i - 1) * dim + 1, i * dim)]

RECURSIVE AddEach(_, _, _, _, _)
\* The store after add_vector on each of the first n slices, in order.
AddEach(vecs, dim, m, slices, n) ==
    IF n = 0 THEN vecs
    ELSE add_vector_of(AddEach(vecs, dim, m, slices, n - 1), dim, m, slices[n]).vecs

\* C9: a successful add_vectors_batch(flat, count) leaves the index in the
\* state count add_vector calls on the consecutive slices of flat reach:
\* size() grows by count and the i-th slice is stored under old_size + i.
C9_BatchIsSequentialAdds ==
    [][(last'.op = "add_vectors_batch" /\ last'.status = "ok") =>
           \A flat \in FlatBuffers :
               add_vectors_batch(flat, last'.n) =>
                   LET count == last'.n
                       slices == Slices(flat, count, dimension)
                   IN /\ vectors' = AddEach(vectors, dimension, metric, slices, count)
                      /\ Len(vectors') = Len(vectors) + count
                      /\ \A i \in 0..(count - 1) :
                             get_vector_of(vectors', Len(vectors) + i) =
                                 <<IF metric = "Cosine"
                                   THEN normalize_vector(slices[i + 1])
                                   ELSE slices[i + 1]>>]_vars

\* A batch of two vectors of dimension 2 added to an index that held one.
C9_Witness ==
    /\ last.op = "add_vectors_batch"
    /\ last.status = "ok"
    /\ last.n = 2
    /\ dimension = 2
    /\ size = 3

\* C10: search fails whenever len(query) # dimension, also on an empty index;
\* with a query of the right length an empty index yields an empty sequence.
C10_SearchChecksDimensionFirst ==
    last.op = "search" =>
        /\ last.mismatch => last.status = "err"
        /\ (~last.mismatch /\ size = 0) => (last.status = "ok" /\ last.ret = <<>>)

\* A search of an empty index with a query of the wrong length.
C10_Witness ==
    /\ last.op = "search"
    /\ last.mismatch
    /\ last.status = "err"
    /\ size = 0

\* C11: get_vector(id) returns none exactly when id >= size(), and otherwise
\* the vector stored under id; a successful add_vector stores its vector under
\* the identifier it returns; no add_vector, add_vectors_batch or search
\* changes a vector that is already stored.
C11_GetVectorReturnsStored ==
    [][/\ last'.op = "get_vector" =>
              /\ (last'.ret = <<>>) <=> (last'.n >= Len(vectors'))
              /\ last'.n < Len(vectors') => last'.ret = <<vectors'[last'.n + 1]>>
       /\ (last'.op = "add_vector" /\ last'.status = "ok") =>
              get_vector_of(vectors', last'.ret[1]) = <<vectors'[Len(vectors')]>>
       /\ last'.op \in {"add_vector", "add_vectors_batch", "search"} =>
              \A id \in 0..(Len(vectors) - 1) :
                  get_vector_of(vectors', id) = get_vector_of(vectors, id)]_vars

\* get_vector of the last identifier of a full index, and of the first
\* identifier past it.
C11_Witness ==
    /\ last.op = "get_vector"
    /\ size = MaxVectors
    /\ \/ (last.n = size - 1 /\ last.ret # <<>>)
       \/ (last.n = size /\ last.ret = <<>>)

\* The magnitude of a vector.
magnitude(vec) == FSqrt(Sum([i \in 1..Len(vec) |-> FMul(vec[i], vec[i])]))

\* Unit length, to within one step of the fixed-point resolution.
IsUnit(vec) ==
    LET n == magnitude(vec) IN ~n.nan /\ AbsInt(n.v - Scale) <= 1

IsZero(vec) == \A i \in 1..Len(vec) : vec[i] = F(0)

HasNaN(vec) == \E i \in 1..Len(vec) : vec[i].nan

\* The vector the last add_vector of a step stored.
Stored == vectors'[Len(vectors')]

C13_StoredLengthIsDimension ==
    [][/\ dimension' = dimension
       /\ \A i \in 1..Len(vectors') : Len(vectors'[i]) = dimension
       /\ (last'.op = "add_vector" /\ last'.mismatch) =>
              Len(vectors') = Len(vectors)]_vars

\* A full index of dimension 2 that has just rejected a vector.
C13_Witness ==
    /\ dimension = 2
    /\ size = MaxVectors
    /\ \A i \in 1..size : Len(vectors[i]) = 2
    /\ last.op = "add_vector"
    /\ last.mismatch

\* C14: in every state of a CompressedVectorStore, after successful and failed
\* add calls and get calls, the byte buffer's length equals count * dimension
\* and memory_usage() returns that value.
C14_BufferLengthIsCountTimesDimension ==
    /\ Len(store_vectors) = store_count * store_dimension
    /\ memory_usage = store_count * store_dimension

\* A store of dimension 2 holding vectors that has just rejected a vector.
C14_Witness ==
    /\ store_dimension = 2
    /\ store_count >= 2
    /\ store_last.op = "add"
    /\ store_last.status = "err"

\* The bytes the n-th successful add wrote.
Written(n) == [j \in 1..Len(added[n]) |-> quantize(added[n][j])]

\* C15: get(id) fails exactly when id >= count; otherwise it returns a vector
\* of length dimension, the dequantized bytes id * dimension .. (id + 1) *
\* dimension of the buffer, which are the bytes the (id + 1)-th successful add
\* wrote.
C15_GetDequantizesSlice ==
    store_last.op = "get" =>
        /\ (store_last.status = "err") <=> (store_last.id >= store_count)
        /\ store_last.id < store_count =>
               /\ store_last.status = "ok"
               /\ Len(store_last.ret) = store_dimension
               /\ \A j \in 1..store_dimension :
                      /\ store_last.ret[j] =
                             dequantize(store_vectors[store_last.id * store_dimension + j])
                      /\ store_last.ret[j] = dequantize(Written(store_last.id + 1)[j])

\* get of the second vector of a store of dimension 2, and get of the first
\* identifier past the end.
C15_Witness ==
    /\ store_last.op = "get"
    /\ store_dimension = 2
    /\ store_count = 2
    /\ \/ (store_last.id = 1 /\ store_last.status = "ok")
       \/ (store_last.id = 2 /\ store_last.status = "err")

\* A component that lies in [-1, 1].
InRange(x) == ~x.nan /\ -Scale <= x.v /\ x.v <= Scale

\* x - got, the round-trip error of one component, times 255 * Scale: x is
\* x.v / Scale and got is in units of 1 / 255.
ErrorScaled(x, got) == 255 * x.v - Scale * got

\* C16: for components in [-1, 1], the vector get returns after add differs
\* from the original by at most 1 / 255 in every component.
C16_RoundTripWithinOne255th ==
    (store_last.op = "get" /\ store_last.status = "ok") =>
        \A j \in 1..store_dimension :
            LET x == added[store_last.id + 1][j]
            IN InRange(x) => AbsInt(ErrorScaled(x, store_last.ret[j])) <= Scale

\* C17: in every state of the cache, after any sequence of set, get and
\* clear, there is at most one entry for each query.
C17_OneEntryPerKey ==
    \A i, j \in 1..Len(cache) : cache[i].query = cache[j].query => i = j

\* A set that replaced the entry of its query while another entry stayed.
C17_Witness ==
    /\ cache_last.op = "set"
    /\ Len(cache) = 2
    /\ cache[2].query = cache_last.query
    /\ cache[2].results = "r2"
    /\ cache_last.ret = <<>>
    /\ cache[2].timestamp > cache[1].timestamp

\* C18: after every completed operation on the cache, for every max_size >= 0,
\* the number of entries is at most max_size.
C18_SizeAtMostMaxSize == Len(cache) <= max_size

\* A set on a cache of max_size 0, and a set that found a cache of max_size 2
\* full: both dropped an entry.
C18_Witness ==
    /\ cache_last.op = "set"
    /\ cache_last.ret # <<>>
    /\ \/ max_size = 0
       \/ (max_size = 2 /\ Len(cache) = 2)

\* The entries of a set step after the push: those of other queries and the
\* new one.
Pushed ==
    Append(retain(cache, cache_last'.query),
           Entry(cache_last'.query, cache_last'.results, cache_last'.timestamp))

\* C19: when a set makes the entry count exceed max_size, exactly one entry is
\* removed, and its timestamp is the smallest among all entries; every other
\* entry keeps its query, results and timestamp and is returned by get.  When
\* the timestamps increase from set to set, the entry removed is the first
\* one set and the new entry stays.
C19_EvictsOneOldestEntry ==
    [][(cache_last'.op = "set" /\ Len(Pushed) > max_size) =>
           LET before == Range(Pushed)
               after == Range(cache')
               entry == Pushed[Len(Pushed)]
           IN /\ after \subseteq before
              /\ Len(cache') = Len(Pushed) - 1
              /\ Cardinality(before \ after) = 1
              /\ \A e \in before \ after :
                     \A f \in before : e.timestamp <= f.timestamp
              /\ \A f \in after : cache_get_of(cache', f.query) = <<f.results>>
              /\ (/\ max_size >= 1
                  /\ \A i \in 1..Len(cache) :
                         /\ cache[i].timestamp < entry.timestamp
                         /\ \A j \in 1..Len(cache) :
                                i < j => cache[i].timestamp < cache[j].timestamp)
                     => (entry \in after /\ cache[1] \notin after)]_vars

\* A cache of max_size 2 after a, b and c were set at the timestamps 0, 1 and
\* 2: the set of c dropped a, and b and c are the entries.
C19_Witness ==
    /\ max_size = 2
    /\ cache_last.op = "set"
    /\ cache_last.query = "c"
    /\ cache_last.timestamp = 2
    /\ Len(cache_last.ret) = 1
    /\ cache_last.ret[1].query = "a"
    /\ cache_last.ret[1].timestamp = 0
    /\ Len(cache) = 2
    /\ cache[1].query = "b"
    /\ cache[1].timestamp = 1
    /\ cache[2].query = "c"
    /\ cache_get_of(cache, "a") = <<>>

\* C20: immediately after set(query, results) on a cache of max_size >= 1,
\* get(query) returns results, whatever the earlier calls and the timestamps
\* were; get of a query that has no entry returns none.
C20_ReadYourWrite ==
    /\ (cache_last.op = "set" /\ max_size >= 1) =>
           cache_get_of(cache, cache_last.query) = <<cache_last.results>>
    /\ cache_last.op = "get" =>
           ((\A i \in 1..Len(cache) : cache[i].query # cache_last.query)
               => cache_last.ret = <<>>)

C25_EvictsLeastRecentlyUsed ==
    [][(/\ cache_last.op = "get"
        /\ cache_last.ret # <<>>
        /\ Len(cache) >= 2
        /\ cache_last'.op = "set"
        /\ \A i \in 1..Len(cache) : cache[i].timestamp < cache_last'.timestamp
        /\ cache_last'.ret # <<>>)
           => cache_last'.ret[1].query # cache_last.query]_vars

\* C29: a set on a query that has an entry evicts no other query: the entry
\* count is unchanged, every other entry keeps its query, results and
\* timestamp, and the entry of the query holds the new results and timestamp,
\* also when the cache is at max_size.
C29_UpdateEvictsNothing ==
    [][(cache_last'.op = "set" /\ max_size >= 1
        /\ \E i \in 1..Len(cache) : cache[i].query = cache_last'.query) =>
           /\ Len(cache') = Len(cache)
           /\ cache_last'.ret = <<>>
           /\ \A i \in 1..Len(cache) :
                  cache[i].query # cache_last'.query => cache[i] \in Range(cache')
           /\ Entry(cache_last'.query, cache_last'.results, cache_last'.timestamp)
                  \in Range(cache')]_vars

\* A set that updated the older entry of a full cache with a timestamp below
\* the other entry's.
C29_Witness ==
    /\ cache_last.op = "set"
    /\ max_size = 2
    /\ Len(cache) = 2
    /\ cache_last.ret = <<>>
    /\ cache[2].query = cache_last.query
    /\ cache[2].results = "r2"
    /\ cache[2].timestamp < cache[1].timestamp

\* C22: for equal-length vectors a and b, cosine_similarity_js, which returns
\* what vector_search::cosine_similarity returns, answers a value in [-1, 1],
\* and 1 for cosine(a, a) when a is not the zero vector.  Stated for vectors
\* of numbers, to within one step of the fixed-point resolution.
C22_CosineWithinUnitRange ==
    (/\ called.op = "cosine_similarity_js"
     /\ called.status = "ok"
     /\ ~HasNaN(called.a)
     /\ ~HasNaN(called.b)) =>
        LET cos == called.ret[1]
        IN /\ ~cos.nan
           /\ -Scale <= cos.v
           /\ cos.v <= Scale
           /\ (called.a = called.b /\ ~IsZero(called.a)) => AbsInt(cos.v - Scale) <= 1

\* x <= y on f32: false when either side is NaN.
FLe(x, y) == ~x.nan /\ ~y.nan /\ x.v <= y.v

\* The number of vectors of the batch from_batch was called with.
BatchCount == Len(called.embeddings) \div called.dimension

\* The j-th components of the batch from_batch was called with.
BatchColumn(j) == Column(called.embeddings, called.dimension, BatchCount, j)

FromBatchOk == called.op = "from_batch" /\ called.stats.status = "ok"

\* C23, as claimed: for a batch of count >= 1 vectors and every dimension j,
\* mean[j] is the sum of the j-th components divided by count, min[j] is
\* their minimum and max[j] their maximum, hence min[j] <= mean[j] <= max[j].
C23_MeanMinMax ==
    (FromBatchOk /\ BatchCount >= 1) =>
        \A j \in 1..called.dimension :
            LET col == BatchColumn(j)
                mean == called.stats.mean[j]
                min == called.stats.min[j]
                max == called.stats.max[j]
            IN /\ mean = FDiv(Sum(col), as_f32(BatchCount))
               /\ \E i \in 1..BatchCount : col[i] = min
               /\ \A i \in 1..BatchCount : FLe(min, col[i])
               /\ \E i \in 1..BatchCount : col[i] = max
               /\ \A i \in 1..BatchCount : FLe(col[i], max)
               /\ FLe(min, mean)
               /\ FLe(mean, max)

\* The components of a column that are numbers.
Numbers(col) == {col[i] : i \in {k \in 1..Len(col) : ~col[k].nan}}

\* C23, amended: for a dimension j whose components are all numbers, mean[j]
\* is their sum divided by count, min[j] their minimum and max[j] their
\* maximum, and min[j] <= mean[j] <= max[j] to within the rounding of the
\* quotient.  For a dimension with a NaN component, mean[j] is NaN and min[j]
\* and max[j] are the minimum and maximum of the components that are numbers
\* (the infinities when there is none).
C23_MeanMinMaxOfNumbers ==
    (FromBatchOk /\ BatchCount >= 1) =>
        \A j \in 1..called.dimension :
            LET col == BatchColumn(j)
                mean == called.stats.mean[j]
                min == called.stats.min[j]
                max == called.stats.max[j]
            IN /\ HasNaN(col) => mean.nan
               /\ ~HasNaN(col) =>
                      /\ mean = FDiv(Sum(col), as_f32(BatchCount))
                      /\ min.v - 1 <= mean.v
                      /\ mean.v <= max.v + 1
               /\ IF Numbers(col) = {}
                  THEN min = INFINITY /\ max = NEG_INFINITY
                  ELSE /\ min \in Numbers(col)
                       /\ max \in Numbers(col)
                       /\ \A x \in Numbers(col) : FLe(min, x) /\ FLe(x, max)

\* Statistics of three vectors of dimension 1 whose mean lies strictly
\* between the minimum and the maximum.
C23_Witness ==
    /\ FromBatchOk
    /\ called.dimension = 1
    /\ BatchCount = 3
    /\ ~HasNaN(called.embeddings)
    /\ called.stats.min[1].v < called.stats.mean[1].v
    /\ called.stats.mean[1].v < called.stats.max[1].v

\* C24: for every dimension >= 0, from_batch returns an error value for an
\* input whose length is not a multiple of the dimension, and for every other
\* input four vectors of length dimension; it does not abort.
C24_FromBatchReturnsErrorOrStats ==
    called.op = "from_batch" =>
        LET len == Len(called.embeddings)
            multiple == IF called.dimension = 0 THEN len = 0
                        ELSE len % called.dimension = 0
        IN /\ ~multiple => called.stats.status = "err"
           /\ multiple =>
                  /\ called.stats.status = "ok"
                  /\ Len(called.stats.mean) = called.dimension
                  /\ Len(called.stats.std_dev) = called.dimension
                  /\ Len(called.stats.min) = called.dimension
                  /\ Len(called.stats.max) = called.dimension

\* C30: every result of a successful search refers to a live stored vector:
\* each id is below size(), no id occurs twice in one result, the score paired
\* with an id is the index's metric applied to the query (normalized first in
\* a Cosine index) and the vector stored under that id, and the search leaves
\* the vectors, the dimension and the metric as they were.
C30_ResultsReferToStoredVectors ==
    [][(last'.op = "search" /\ last'.status = "ok") =>
           /\ vectors' = vectors
           /\ dimension' = dimension
           /\ metric' = metric
           /\ LET ret == last'.ret
                  query_vec == IF metric = "Cosine"
                               THEN normalize_vector(last'.query)
                               ELSE last'.query
              IN \A i \in 1..Len(ret) :
                     /\ ret[i].id >= 0
                     /\ ret[i].id < Len(vectors)
                     /\ \A j \in 1..Len(ret) : ret[i].id = ret[j].id => i = j
                     /\ ret[i].score =
                            compute_similarity(metric, query_vec,
                                               vectors[ret[i].id + 1])]_vars

\* A search of a Cosine index of three vectors with a query that is not of
\* unit length, returning two results.
C30_Witness ==
    /\ last.op = "search"
    /\ last.status = "ok"
    /\ metric = "Cosine"
    /\ size = 3
    /\ Len(last.ret) = 2
    /\ ~HasNaN(last.query)
    /\ ~IsUnit(last.query)
    /\ ~IsZero(last.query)

\* C26: SearchEngine.search is a read-through cache keyed by the query alone.
\* When the cache holds an entry for the query, the call returns the stored
\* value and leaves the cache as it was, whatever items_json is; when it holds
\* none and the ranking succeeds, the returned string is stored under the
\* query; when it holds none and items_json does not parse, the call returns
\* an error and leaves the cache as it was.
C26_SearchIsReadThrough ==
    [][engine_last'.op = "search" =>
           LET query == engine_last'.query
               held == cache_get_of(cache, query)
               parsed == from_str(engine_last'.items_json)
           IN /\ held # <<>> =>
                     /\ engine_last'.status = "ok"
                     /\ engine_last'.ret = held
                     /\ cache' = cache
              /\ (held = <<>> /\ parsed.status = "ok") =>
                     /\ engine_last'.status = "ok"
                     /\ cache_get_of(cache', query) = engine_last'.ret
              /\ (held = <<>> /\ parsed.status = "err") =>
                     /\ engine_last'.status = "err"
                     /\ cache' = cache]_vars

\* C27: after a store_search(query, results) has completed, a get_search(query)
\* issued within the one hour the entry lives, with the entry still in the
\* searches store, returns results.
C27_SearchRoundTrip ==
    \A p \in Tasks :
        LET t == tasks[p]
        IN (/\ t.op = "get_search"
            /\ t.pc = "done"
            /\ t.expect # <<>>
            /\ db[STORE_SEARCHES][t.key] = t.expect
            /\ ~expired(t.expect[1], now)) =>
               t.ret = <<Ok(<<t.expect[1].value>>)>>

\* C28: get_media deletes only expired data: the entry its delete removes is
\* one whose time to live has run out, whatever store_media calls ran between
\* its read and its delete.
C28_DeletesOnlyExpired ==
    [][\A p \in Tasks :
           (tasks[p].pc = "delete_item" /\ tasks'[p].pc = "done") =>
               LET removed == db[tasks[p].store][tasks[p].key]
               IN (removed # <<>> /\ db'[tasks[p].store][tasks[p].key] = <<>>) =>
                      expired(removed[1], now)]_vars

====
